---- MODULE Spec2Model ----
(***************************************************************************)
(* ElementView: a client-side XML tree viewer (Preact).                    *)
(*                                                                         *)
(* The module models the App component of the collapse-map variant of the  *)
(* viewer: its state hooks, its file handlers, the FileReader completion   *)
(* callback, the bulk expand/collapse buttons of XmlView and the header    *)
(* click of XmlTree, together with the render pass that decides which      *)
(* XmlTree / XmlLeaf instances exist after every state change.             *)
(***************************************************************************)
EXTENDS Naturals, Sequences, FiniteSets, TLC

VARIABLES
    xmlElement,     \* useState<Element | null>: the active document root
    error,          \* useState<string | null>: the error message
    collapsedMap,   \* useState<Record<string, boolean>>: the active collapse map
    isDragging,     \* useState(false): drag highlight of the drop zone
    stale,          \* number of FileReaders still reading that are not the newest one
    latest,         \* the most recently created FileReader, while any read is in flight
    heldMap,        \* the object a header click was given as collapsedMap, after the click
    lastOp,         \* the handler that ran last, and its input
    leaf,           \* an XmlLeaf instance: the node it is given and the spans it shows
    watch,          \* the view before a header click that collapsed a node, while watched
    localCollapsed  \* index.tsx: useState(false) of each mounted XmlTree, by its place

vars == <<xmlElement, error, collapsedMap, isDragging, stale, latest, heldMap, lastOp,
          leaf, watch, localCollapsed>>

\* What the handlers of App and XmlView leave alone.
aux == <<leaf, watch, localCollapsed>>

(***************************************************************************)
(* Bounds of the model.                                                    *)
(***************************************************************************)
MaxNodes == 4       \* documents have at most this many elements
MaxInFlight == 2    \* at most this many FileReaders read at the same time

(***************************************************************************)
(* Documents.  An Element is modelled by its ordered element children      *)
(* (node.children); tag names and text only matter for display.            *)
(***************************************************************************)
RECURSIVE Forests(_)
Forests(n) ==
    IF n = 0 THEN {<<>>}
    ELSE UNION {{<<[children |-> c]>> \o f : c \in Forests(j - 1), f \in Forests(n - j)}
                : j \in 1..n}

Elements == {[children |-> c] : c \in UNION {Forests(n - 1) : n \in 1..MaxNodes}}

null == [null |-> TRUE]

\* The error hook holds null or a string.
NotValidXml == [string |-> "Not a valid XML"]

(***************************************************************************)
(* File contents handed to DOMParser.  A text is either malformed, or      *)
(* well-formed with a root element; a well-formed document may itself hold *)
(* an element whose tag name is parsererror (`named`).                     *)
(***************************************************************************)
Malformed == [wellFormed |-> FALSE]

\* <root><parsererror/></root>: well-formed, with an element named parsererror.
NamedParserError ==
    [wellFormed |-> TRUE, root |-> [children |-> <<[children |-> <<>>]>>], named |-> TRUE]

Texts ==
    {Malformed, NamedParserError} \cup
    {[wellFormed |-> TRUE, root |-> e, named |-> FALSE] : e \in Elements}

\* parser.parseFromString(text, 'application/xml'): the document, seen through
\* documentElement and getElementsByTagName('parsererror').length.  For malformed
\* input the parser returns an error document that holds a parsererror element.
parseFromString(text) ==
    IF text.wellFormed
    THEN [documentElement |-> text.root, parsererror |-> IF text.named THEN 1 ELSE 0]
    ELSE [documentElement |-> [children |-> <<>>], parsererror |-> 1]

FileTypes == {"text/xml", "application/xml", "text/plain", ""}

(***************************************************************************)
(* Record<string, boolean> built by a run of assignments map[path] = v.    *)
(***************************************************************************)
ObjectOf(writes) ==
    [p \in {writes[i].path : i \in DOMAIN writes} |->
        LET last == CHOOSE i \in DOMAIN writes :
                        /\ writes[i].path = p
                        /\ \A j \in DOMAIN writes : j > i => writes[j].path # p
        IN writes[last].value]

\* Mutant: the root test is off by one (depth > 1).
RECURSIVE traverse_DepthOffByOne(_, _, _)
traverse_DepthOffByOne(el, path, depth) ==
    LET children == el.children
        forEach[n \in 0..Len(children)] ==
            IF n = 0 THEN <<>>
            ELSE forEach[n - 1] \o
                 traverse_DepthOffByOne(
                     children[n], path \o "." \o ToString(n - 1), depth + 1)
    IN <<[path |-> path, value |-> depth > 1]>> \o forEach[Len(children)]

\* Mutant: only nodes that have children get an entry.
RECURSIVE traverse_SkipLeaves(_, _, _)
traverse_SkipLeaves(el, path, depth) ==
    LET children == el.children
        forEach[n \in 0..Len(children)] ==
            IF n = 0 THEN <<>>
            ELSE forEach[n - 1] \o
                 traverse_SkipLeaves(
                     children[n], path \o "." \o ToString(n - 1), depth + 1)
    IN (IF Len(children) > 0 THEN <<[path |-> path, value |-> depth > 0]>> ELSE <<>>)
       \o forEach[Len(children)]

\* Mutant: the child's segment is the depth instead of the child's index.
RECURSIVE traverse_PathByDepth(_, _, _)
traverse_PathByDepth(el, path, depth) ==
    LET children == el.children
        forEach[n \in 0..Len(children)] ==
            IF n = 0 THEN <<>>
            ELSE forEach[n - 1] \o
                 traverse_PathByDepth(
                     children[n], path \o "." \o ToString(depth), depth + 1)
    IN <<[path |-> path, value |-> depth > 0]>> \o forEach[Len(children)]

\* generateDefaultCollapsedMap's inner traverse: the assignments it makes, in order.
RECURSIVE generateDefaultCollapsedMap_traverse(_, _, _)
generateDefaultCollapsedMap_traverse(el, path, depth) ==
    LET children == el.children
        forEach[n \in 0..Len(children)] ==
            IF n = 0 THEN <<>>
            ELSE forEach[n - 1] \o
                 generateDefaultCollapsedMap_traverse(
                     children[n], path \o "." \o ToString(n - 1), depth + 1)
    IN <<[path |-> path, value |-> depth > 0]>> \o forEach[Len(children)]

generateDefaultCollapsedMap(root) ==
    ObjectOf(generateDefaultCollapsedMap_traverse(root, "0", 0))

\* expandAll's inner traverse.
RECURSIVE expandAll_traverse(_, _)
expandAll_traverse(el, path) ==
    LET children == el.children
        forEach[n \in 0..Len(children)] ==
            IF n = 0 THEN <<>>
            ELSE forEach[n - 1] \o
                 expandAll_traverse(children[n], path \o "." \o ToString(n - 1))
    IN <<[path |-> path, value |-> FALSE]>> \o forEach[Len(children)]

\* collapseAll's inner traverse.
RECURSIVE collapseAll_traverse(_, _)
collapseAll_traverse(el, path) ==
    LET children == el.children
        forEach[n \in 0..Len(children)] ==
            IF n = 0 THEN <<>>
            ELSE forEach[n - 1] \o
                 collapseAll_traverse(children[n], path \o "." \o ToString(n - 1))
    IN <<[path |-> path, value |-> TRUE]>> \o forEach[Len(children)]

(***************************************************************************)
(* The render pass: XmlViewer picks XmlLeaf or XmlTree; XmlTree resolves   *)
(* its collapsed flag and, when expanded, renders one XmlViewer per child. *)
(* The result lists the component instances in document order.             *)
(***************************************************************************)
\* Mutant: without an entry a node is shown expanded, whatever its depth.
RECURSIVE XmlViewer_FallbackOpen(_, _, _, _)
XmlViewer_FallbackOpen(node, depth, path, map) ==
    LET children == node.children
        hasChildren == Len(children) > 0
        collapsed == IF path \in DOMAIN map THEN map[path] ELSE FALSE
        childViews[n \in 0..Len(children)] ==
            IF n = 0 THEN <<>>
            ELSE childViews[n - 1] \o
                 XmlViewer_FallbackOpen(
                     children[n], depth + 1, path \o "." \o ToString(n - 1), map)
    IN IF ~hasChildren
       THEN <<[component |-> "XmlLeaf", node |-> node, path |-> path,
               depth |-> depth, collapsed |-> FALSE]>>
       ELSE <<[component |-> "XmlTree", node |-> node, path |-> path,
               depth |-> depth, collapsed |-> collapsed]>>
            \o (IF collapsed THEN <<>> ELSE childViews[Len(children)])

\* Mutant: the renderer numbers the children from 1.
RECURSIVE XmlViewer_OneBased(_, _, _, _)
XmlViewer_OneBased(node, depth, path, map) ==
    LET children == node.children
        hasChildren == Len(children) > 0
        collapsed == IF path \in DOMAIN map THEN map[path] ELSE depth > 0
        childViews[n \in 0..Len(children)] ==
            IF n = 0 THEN <<>>
            ELSE childViews[n - 1] \o
                 XmlViewer_OneBased(
                     children[n], depth + 1, path \o "." \o ToString(n), map)
    IN IF ~hasChildren
       THEN <<[component |-> "XmlLeaf", node |-> node, path |-> path,
               depth |-> depth, collapsed |-> FALSE]>>
       ELSE <<[component |-> "XmlTree", node |-> node, path |-> path,
               depth |-> depth, collapsed |-> collapsed]>>
            \o (IF collapsed THEN <<>> ELSE childViews[Len(children)])

RECURSIVE XmlViewer(_, _, _, _)
XmlViewer(node, depth, path, map) ==
    LET children == node.children
        hasChildren == Len(children) > 0
        collapsed == IF path \in DOMAIN map THEN map[path] ELSE depth > 0
        childViews[n \in 0..Len(children)] ==
            IF n = 0 THEN <<>>
            ELSE childViews[n - 1] \o
                 XmlViewer(children[n], depth + 1, path \o "." \o ToString(n - 1), map)
    IN IF ~hasChildren
       THEN <<[component |-> "XmlLeaf", node |-> node, path |-> path,
               depth |-> depth, collapsed |-> FALSE]>>
       ELSE <<[component |-> "XmlTree", node |-> node, path |-> path,
               depth |-> depth, collapsed |-> collapsed]>>
            \o (IF collapsed THEN <<>> ELSE childViews[Len(children)])

\* What App renders below the drop zone: XmlView's XmlViewer for the root, if any.
Rendered ==
    IF xmlElement = null THEN <<>> ELSE XmlViewer(xmlElement, 0, "0", collapsedMap)

XmlTrees == {Rendered[i] : i \in {j \in DOMAIN Rendered : Rendered[j].component = "XmlTree"}}

\* The paths of the instances that exist.
RenderedPaths == {Rendered[i].path : i \in DOMAIN Rendered}

\* Mutant: expanding a node collapses every other node.
toggle_CollapsesRest(map, path, collapsed) ==
    [input |-> map,
     next |-> [k \in DOMAIN map \cup {path} |->
                   IF k = path THEN ~collapsed ELSE map[k] \/ collapsed]]

\* Mutant: the props object is updated in place and handed back.
toggle_InPlace(map, path, collapsed) ==
    LET updated == [k \in DOMAIN map \cup {path} |->
                       IF k = path THEN ~collapsed ELSE map[k]]
    IN [input |-> updated, next |-> updated]

\* Mutant: the object literal lacks the spread of the old map.
toggle_NoSpread(map, path, collapsed) ==
    [input |-> map, next |-> [k \in {path} |-> ~collapsed]]

\* XmlTree.toggle: the object literal {...collapsedMap, [path]: !collapsed} handed to
\* setCollapsedMap (next), and the props object it was computed from, as the call
\* leaves it (input).
toggle(map, path, collapsed) ==
    [input |-> map,
     next  |-> [k \in DOMAIN map \cup {path} |-> IF k = path THEN ~collapsed ELSE map[k]]]

NoMap == [none |-> TRUE]

Op(op, arg) == [op |-> op, arg |-> arg, again |-> FALSE]

NoReader == [state |-> "none"]
NoLeaf == [none |-> TRUE]
NoWatch == [none |-> TRUE]
Reading == [state |-> "reading"]
InFlight == stale + (IF latest.state = "reading" THEN 1 ELSE 0)

(***************************************************************************)
(* Initial state: the useState initial values; no FileReader exists.       *)
(***************************************************************************)
Init ==
    /\ xmlElement = null
    /\ error = null
    /\ collapsedMap = <<>>
    /\ isDragging = FALSE
    /\ stale = 0
    /\ latest = NoReader
    /\ heldMap = NoMap
    /\ lastOp = Op("init", "")
    /\ leaf = NoLeaf
    /\ watch = NoWatch
    /\ localCollapsed = <<>>

(***************************************************************************)
(* handleFile: a file whose type is not 'text/xml' is dropped, otherwise a *)
(* new FileReader starts reading it.  The reader that was the newest one   *)
(* so far, if still reading, becomes one of the stale readers.             *)
(***************************************************************************)
\* Mutant: 'application/xml' files are read as well.
handleFile_AnyXml(type) ==
    /\ IF type \notin {"text/xml", "application/xml"}
       THEN /\ UNCHANGED <<stale, latest>>
            /\ lastOp' = Op("handleFile", "rejected")
       ELSE /\ InFlight < MaxInFlight
            /\ stale' = InFlight
            /\ latest' = Reading
            /\ lastOp' = Op("handleFile", "reading")
    /\ heldMap' = NoMap
    /\ UNCHANGED <<xmlElement, error, collapsedMap>>

handleFile(type) ==
    /\ IF type # "text/xml"
       THEN /\ UNCHANGED <<stale, latest>>
            /\ lastOp' = Op("handleFile", "rejected")
       ELSE /\ InFlight < MaxInFlight
            /\ stale' = InFlight
            /\ latest' = Reading
            /\ lastOp' = Op("handleFile", "reading")
    /\ heldMap' = NoMap
    /\ UNCHANGED <<xmlElement, error, collapsedMap>>

NoFile == "no file"

\* e.dataTransfer?.files?.[0] may be absent: then only the highlight is cleared.
handleDrop(file) ==
    /\ isDragging' = FALSE
    /\ IF file = NoFile
       THEN /\ lastOp' = Op("handleDrop", NoFile)
            /\ heldMap' = NoMap
            /\ UNCHANGED <<xmlElement, error, collapsedMap, stale, latest>>
       ELSE handleFile(file)

handleFileChange(file) ==
    /\ UNCHANGED isDragging
    /\ IF file = NoFile
       THEN /\ lastOp' = Op("handleFileChange", NoFile)
            /\ heldMap' = NoMap
            /\ UNCHANGED <<xmlElement, error, collapsedMap, stale, latest>>
       ELSE handleFile(file)

\* handleDragOver and handleClick set no state hook and start no read; they
\* have no action of their own.
handleDragEnter ==
    /\ isDragging' = TRUE
    /\ lastOp' = Op("handleDragEnter", "")
    /\ heldMap' = NoMap
    /\ UNCHANGED <<xmlElement, error, collapsedMap, stale, latest>>

handleDragLeave ==
    /\ isDragging' = FALSE
    /\ lastOp' = Op("handleDragLeave", "")
    /\ heldMap' = NoMap
    /\ UNCHANGED <<xmlElement, error, collapsedMap, stale, latest>>

(***************************************************************************)
(* reader.onload: parse reader.result, then set the state hooks.           *)
(***************************************************************************)
\* Mutant: the error branch leaves the previous document in place.
onload_KeepsTree(text) ==
    LET xmlDoc == parseFromString(text)
        parserError == xmlDoc.parsererror
        root == xmlDoc.documentElement
    IN /\ IF parserError > 0
          THEN /\ error' = NotValidXml
               /\ UNCHANGED <<xmlElement, collapsedMap>>
          ELSE /\ error' = null
               /\ xmlElement' = root
               /\ collapsedMap' = generateDefaultCollapsedMap(root)
       /\ lastOp' = Op("onload", IF text.wellFormed THEN "well-formed" ELSE "malformed")
       /\ heldMap' = NoMap
       /\ UNCHANGED isDragging

\* Mutant: the new document's defaults are merged under the old map's entries.
onload_MergesOldMap(text) ==
    LET xmlDoc == parseFromString(text)
        parserError == xmlDoc.parsererror
        root == xmlDoc.documentElement
    IN /\ IF parserError > 0
          THEN /\ xmlElement' = null
               /\ error' = NotValidXml
               /\ UNCHANGED collapsedMap
          ELSE /\ error' = null
               /\ xmlElement' = root
               /\ collapsedMap' = collapsedMap @@ generateDefaultCollapsedMap(root)
       /\ lastOp' = Op("onload", IF text.wellFormed THEN "well-formed" ELSE "malformed")
       /\ heldMap' = NoMap
       /\ UNCHANGED isDragging

onload(text) ==
    LET xmlDoc == parseFromString(text)
        parserError == xmlDoc.parsererror
        root == xmlDoc.documentElement
    IN /\ IF parserError > 0
          THEN /\ xmlElement' = null
               /\ error' = NotValidXml
               /\ UNCHANGED collapsedMap
          ELSE /\ error' = null
               /\ xmlElement' = root
               /\ collapsedMap' = generateDefaultCollapsedMap(root)
       /\ lastOp' = Op("onload", IF text.wellFormed THEN "well-formed" ELSE "malformed")
       /\ heldMap' = NoMap
       /\ UNCHANGED isDragging

\* The newest reader finishes.  Its result is remembered while older reads go on.
onloadLatest(text) ==
    /\ latest.state = "reading"
    /\ onload(text)
    /\ latest' = IF stale > 0 THEN [state |-> "done", text |-> text] ELSE NoReader
    /\ UNCHANGED stale

\* One of the older readers finishes.
onloadStale(text) ==
    /\ stale > 0
    /\ onload(text)
    /\ stale' = stale - 1
    /\ latest' = IF stale = 1 /\ latest.state = "done" THEN NoReader ELSE latest

(***************************************************************************)
(* XmlView's buttons and XmlTree's header.                                 *)
(***************************************************************************)
expandAll ==
    /\ xmlElement # null
    /\ collapsedMap' = ObjectOf(expandAll_traverse(xmlElement, "0"))
    /\ lastOp' = Op("expandAll", "")
    /\ heldMap' = NoMap
    /\ UNCHANGED <<xmlElement, error, isDragging, stale, latest>>

\* Mutant: collapse-all only rewrites the entries the map already has.
collapseAll_Incremental ==
    /\ xmlElement # null
    /\ collapsedMap' = [k \in DOMAIN collapsedMap |-> TRUE]
    /\ lastOp' = Op("collapseAll", "")
    /\ heldMap' = NoMap
    /\ UNCHANGED <<xmlElement, error, isDragging, stale, latest>>

collapseAll ==
    /\ xmlElement # null
    /\ collapsedMap' = ObjectOf(collapseAll_traverse(xmlElement, "0"))
    /\ lastOp' = Op("collapseAll", "")
    /\ heldMap' = NoMap
    /\ UNCHANGED <<xmlElement, error, isDragging, stale, latest>>

\* A click on the header of a rendered XmlTree instance.
XmlTree_onClick(t) ==
    LET call == toggle(collapsedMap, t.path, t.collapsed)
    IN /\ collapsedMap' = call.next
       /\ heldMap' = call.input
       /\ lastOp' = [op |-> "toggle", arg |-> t.path,
                     again |-> lastOp.op = "toggle" /\ lastOp.arg = t.path]
       /\ UNCHANGED <<xmlElement, error, isDragging, stale, latest>>

Next ==
    \/ \E file \in FileTypes \cup {NoFile} : handleDrop(file) /\ UNCHANGED aux
    \/ \E file \in FileTypes \cup {NoFile} : handleFileChange(file) /\ UNCHANGED aux
    \/ handleDragEnter /\ UNCHANGED aux
    \/ handleDragLeave /\ UNCHANGED aux
    \/ \E text \in Texts : onloadLatest(text) /\ UNCHANGED aux
    \/ \E text \in Texts : onloadStale(text) /\ UNCHANGED aux
    \/ expandAll /\ UNCHANGED aux
    \/ collapseAll /\ UNCHANGED aux
    \/ \E t \in XmlTrees : XmlTree_onClick(t) /\ UNCHANGED aux

Spec == Init /\ [][Next]_vars

(***************************************************************************)
(* XmlLeaf and the two text helpers.  A JavaScript string is modelled as   *)
(* [string |-> the sequence of its characters], so that null, the empty    *)
(* string and the positions of a string are all told apart.                *)
(***************************************************************************)
MaxNameLen == 4         \* tag names over NameChars have at most this many characters
MaxContentLen == 82     \* text contents have at most this many characters between the pads
MaxPad == 1             \* at most this many whitespace characters before and after

Str(chars) == [string |-> chars]

\* String.prototype.includes, for a one-character search string.
includes(chars, c) == \E i \in DOMAIN chars : chars[i] = c

\* String.prototype.split, for a one-character separator: the pieces between
\* the separators, empty pieces included.
RECURSIVE split(_, _)
split(chars, sep) ==
    IF ~includes(chars, sep) THEN <<chars>>
    ELSE LET i == CHOOSE k \in DOMAIN chars :
                      /\ chars[k] = sep
                      /\ \A j \in 1..(k - 1) : chars[j] # sep
         IN <<SubSeq(chars, 1, i - 1)>> \o split(SubSeq(chars, i + 1, Len(chars)), sep)

\* tagName.includes(":") ? tagName.split(":")[1] : tagName
stripNamespace(tagName) ==
    IF includes(tagName.string, ":")
    THEN Str(split(tagName.string, ":")[2])
    ELSE tagName

Whitespace == {" ", "\n", "\t"}

\* String.prototype.trim: whitespace is dropped from the front, then from the end.
RECURSIVE trimStart(_)
trimStart(chars) ==
    IF chars # <<>> /\ Head(chars) \in Whitespace THEN trimStart(Tail(chars)) ELSE chars

RECURSIVE trimEnd(_)
trimEnd(chars) ==
    IF chars # <<>> /\ chars[Len(chars)] \in Whitespace
    THEN trimEnd(SubSeq(chars, 1, Len(chars) - 1))
    ELSE chars

trim(chars) == trimEnd(trimStart(chars))

max == 80

\* Mutant: a text of exactly max characters is cut as well.
limitContent_AtLeastMax(content) ==
    IF content = null \/ content.string = <<>> THEN Str(<<>>)
    ELSE LET trimmed == trim(content.string)
         IN IF Len(trimmed) >= max
            THEN Str(SubSeq(trimmed, 1, max) \o <<".", ".", ".">>)
            ELSE Str(trimmed)

limitContent(content) ==
    IF content = null \/ content.string = <<>> THEN Str(<<>>)
    ELSE LET trimmed == trim(content.string)
         IN IF Len(trimmed) > max
            THEN Str(SubSeq(trimmed, 1, max) \o <<".", ".", ".">>)
            ELSE Str(trimmed)

\* XmlLeaf renders the node it is given: the two expressions of its spans.
XmlLeaf ==
    /\ leaf # NoLeaf
    /\ leaf.spans = null
    /\ leaf' = [leaf EXCEPT !.spans = [name |-> stripNamespace(leaf.node.nodeName),
                                       content |-> limitContent(leaf.node.textContent)]]
    /\ UNCHANGED <<xmlElement, error, collapsedMap, isDragging, stale, latest,
                   heldMap, lastOp, watch, localCollapsed>>

\* The nodes an XmlLeaf is given: childless elements with a tag name and a
\* text content.
Strings(alphabet, n) == UNION {[1..k -> alphabet] : k \in 0..n}

NameChars == {"a", ":"}

TagNames ==
    {Str(<<"n", "s", ":", "I", "t", "e", "m">>), Str(<<"I", "t", "e", "m">>),
     Str(<<"a", ":", "b", ":", "c">>)}
    \cup {Str(chars) : chars \in Strings(NameChars, MaxNameLen) \ {<<>>}}

\* n characters, none of them whitespace at either end, one inside.
Body(n) == [i \in 1..n |-> IF i = 2 /\ n > 2 THEN " " ELSE "x"]

TextContents ==
    {null} \cup {Str(before \o Body(n) \o after) :
                     before \in Strings({" ", "\n"}, MaxPad),
                     n \in 0..MaxContentLen,
                     after \in Strings({" ", "\n"}, MaxPad)}

LeafNodes ==
    {[children |-> <<>>, nodeName |-> name, textContent |-> Str(<<"x">>)] :
         name \in TagNames}
    \cup {[children |-> <<>>, nodeName |-> Str(<<"a">>), textContent |-> content] :
              content \in TextContents}

InitXmlLeaf ==
    /\ xmlElement = null
    /\ error = null
    /\ collapsedMap = <<>>
    /\ isDragging = FALSE
    /\ stale = 0
    /\ latest = NoReader
    /\ heldMap = NoMap
    /\ lastOp = Op("init", "")
    /\ leaf \in {[node |-> node, spans |-> null] : node \in LeafNodes}
    /\ watch = NoWatch
    /\ localCollapsed = <<>>

NextXmlLeaf == XmlLeaf

SpecXmlLeaf == InitXmlLeaf /\ [][NextXmlLeaf]_vars

(***************************************************************************)
(* The component-local variant (src/src/index.tsx).  App has no collapse   *)
(* map: every XmlTree keeps its own `collapsed` hook, which lives as long  *)
(* as the instance is mounted.  An instance is named by its place in the   *)
(* rendered tree (the child indices from the root, written as a path).     *)
(* Preact renders once after a callback, with the last value given to each *)
(* hook, and keeps the instance found at the same place with the same      *)
(* component type and key; any other instance is mounted anew.             *)
(***************************************************************************)
\* What this variant does not have.
index_absent == <<collapsedMap, heldMap, leaf, watch>>

\* One render pass: the instances that exist after it, given the hooks of the
\* XmlTree instances mounted before it.
RECURSIVE index_XmlViewer(_, _, _)
index_XmlViewer(node, place, hooks) ==
    LET children == node.children
        hasChildren == Len(children) > 0
        collapsed == IF place \in DOMAIN hooks THEN hooks[place] ELSE FALSE
        childViews[n \in 0..Len(children)] ==
            IF n = 0 THEN <<>>
            ELSE childViews[n - 1] \o
                 index_XmlViewer(children[n], place \o "." \o ToString(n - 1), hooks)
    IN IF ~hasChildren
       THEN <<[component |-> "XmlLeaf", node |-> node, path |-> place,
               collapsed |-> FALSE]>>
       ELSE <<[component |-> "XmlTree", node |-> node, path |-> place,
               collapsed |-> collapsed]>>
            \o (IF collapsed THEN <<>> ELSE childViews[Len(children)])

\* The hooks of the XmlTree instances mounted after rendering `root`.
index_render(root, hooks) ==
    IF root = null THEN <<>>
    ELSE LET views == index_XmlViewer(root, "0", hooks)
             trees == {i \in DOMAIN views : views[i].component = "XmlTree"}
         IN [place \in {views[i].path : i \in trees} |->
                LET i == CHOOSE j \in trees : views[j].path = place
                IN views[i].collapsed]

index_Rendered ==
    IF xmlElement = null THEN <<>> ELSE index_XmlViewer(xmlElement, "0", localCollapsed)

index_XmlTrees ==
    {index_Rendered[i] :
        i \in {j \in DOMAIN index_Rendered : index_Rendered[j].component = "XmlTree"}}

index_Init ==
    /\ xmlElement = null
    /\ error = null
    /\ isDragging = FALSE
    /\ stale = 0
    /\ latest = NoReader
    /\ lastOp = Op("init", "")
    /\ localCollapsed = <<>>
    /\ collapsedMap = <<>>
    /\ heldMap = NoMap
    /\ leaf = NoLeaf
    /\ watch = NoWatch

index_handleFile(type) ==
    /\ IF type # "text/xml"
       THEN /\ UNCHANGED <<stale, latest>>
            /\ lastOp' = Op("handleFile", "rejected")
       ELSE /\ InFlight < MaxInFlight
            /\ stale' = InFlight
            /\ latest' = Reading
            /\ lastOp' = Op("handleFile", "reading")
    /\ UNCHANGED <<xmlElement, error, localCollapsed>>

index_handleDrop(file) ==
    /\ isDragging' = FALSE
    /\ IF file = NoFile
       THEN /\ lastOp' = Op("handleDrop", NoFile)
            /\ UNCHANGED <<xmlElement, error, localCollapsed, stale, latest>>
       ELSE index_handleFile(file)
    /\ UNCHANGED index_absent

index_handleFileChange(file) ==
    /\ UNCHANGED isDragging
    /\ IF file = NoFile
       THEN /\ lastOp' = Op("handleFileChange", NoFile)
            /\ UNCHANGED <<xmlElement, error, localCollapsed, stale, latest>>
       ELSE index_handleFile(file)
    /\ UNCHANGED index_absent

index_handleDragEnter ==
    /\ isDragging' = TRUE
    /\ lastOp' = Op("handleDragEnter", "")
    /\ UNCHANGED <<xmlElement, error, localCollapsed, stale, latest>>
    /\ UNCHANGED index_absent

index_handleDragLeave ==
    /\ isDragging' = FALSE
    /\ lastOp' = Op("handleDragLeave", "")
    /\ UNCHANGED <<xmlElement, error, localCollapsed, stale, latest>>
    /\ UNCHANGED index_absent

\* reader.onload: setError(null) and setXmlElement(null) come first, then one
\* of the two hooks is set again; the render that follows sees the last values.
index_onload(text) ==
    LET xmlDoc == parseFromString(text)
        parserError == xmlDoc.parsererror
        root == xmlDoc.documentElement
    IN /\ IF parserError > 0
          THEN /\ xmlElement' = null
               /\ error' = NotValidXml
          ELSE /\ error' = null
               /\ xmlElement' = root
       /\ localCollapsed' = index_render(xmlElement', localCollapsed)
       /\ lastOp' = Op("onload", IF text.wellFormed THEN "well-formed" ELSE "malformed")
       /\ UNCHANGED isDragging
       /\ UNCHANGED index_absent

index_onloadLatest(text) ==
    /\ latest.state = "reading"
    /\ index_onload(text)
    /\ latest' = IF stale > 0 THEN [state |-> "done", text |-> text] ELSE NoReader
    /\ UNCHANGED stale

index_onloadStale(text) ==
    /\ stale > 0
    /\ index_onload(text)
    /\ stale' = stale - 1
    /\ latest' = IF stale = 1 /\ latest.state = "done" THEN NoReader ELSE latest

\* toggle = () => setCollapsed(prev => !prev); collapsing unmounts what is below.
index_XmlTree_onClick(t) ==
    /\ localCollapsed' =
           index_render(xmlElement,
                        [localCollapsed EXCEPT ![t.path] = ~localCollapsed[t.path]])
    /\ lastOp' = [op |-> "toggle", arg |-> t.path,
                  again |-> lastOp.op = "toggle" /\ lastOp.arg = t.path]
    /\ UNCHANGED <<xmlElement, error, isDragging, stale, latest>>
    /\ UNCHANGED index_absent

index_Next ==
    \/ \E file \in FileTypes \cup {NoFile} : index_handleDrop(file)
    \/ \E file \in FileTypes \cup {NoFile} : index_handleFileChange(file)
    \/ index_handleDragEnter
    \/ index_handleDragLeave
    \/ \E text \in Texts : index_onloadLatest(text)
    \/ \E text \in Texts : index_onloadStale(text)
    \/ \E t \in index_XmlTrees : index_XmlTree_onClick(t)

SpecIndex == index_Init /\ [][index_Next]_vars

(***************************************************************************)
(* Vocabulary of the properties.  A node is named by its position: the     *)
(* child indexes on the way down from the root.  PathOf is the addressing  *)
(* scheme the properties speak of: the root is "0" and child i of the node *)
(* with path P has path P.i                                                *)
(***************************************************************************)
RECURSIVE Positions(_)
Positions(e) ==
    {<<>>} \cup UNION {{<<i - 1>> \o p : p \in Positions(e.children[i])}
                       : i \in 1..Len(e.children)}

RECURSIVE NodeAt(_, _)
NodeAt(e, pos) ==
    IF pos = <<>> THEN e ELSE NodeAt(e.children[Head(pos) + 1], Tail(pos))

Parent(pos) == SubSeq(pos, 1, Len(pos) - 1)

RECURSIVE PathOf(_)
PathOf(pos) ==
    IF pos = <<>> THEN "0"
    ELSE PathOf(Parent(pos)) \o "." \o ToString(pos[Len(pos)])

HasChildren(e, pos) == Len(NodeAt(e, pos).children) > 0

InternalPaths(e) == {PathOf(pos) : pos \in {q \in Positions(e) : HasChildren(e, q)}}

AllPaths(e) == {PathOf(pos) : pos \in Positions(e)}

\* The positions of a document in depth-first order, children in document order.
RECURSIVE Preorder(_)
Preorder(e) ==
    LET below[n \in 0..Len(e.children)] ==
            IF n = 0 THEN <<>>
            ELSE below[n - 1] \o
                 [k \in 1..Len(Preorder(e.children[n])) |->
                     <<n - 1>> \o Preorder(e.children[n])[k]]
    IN <<<<>>>> \o below[Len(e.children)]

\* root(a, b(c)): <root><a>1</a><b><c>2</c></b></root>
Leaf == [children |-> <<>>]
ExampleTree == [children |-> <<Leaf, [children |-> <<Leaf>>]>>]

(***************************************************************************)
(* XmlView on its own: the component is given a document and any collapse  *)
(* map as props, and the user clicks headers and buttons.                  *)
(***************************************************************************)
InitXmlView ==
    /\ xmlElement \in Elements
    /\ error = null
    /\ collapsedMap \in UNION {[S -> BOOLEAN] : S \in SUBSET AllPaths(xmlElement)}
    /\ isDragging = FALSE
    /\ stale = 0
    /\ latest = NoReader
    /\ heldMap = NoMap
    /\ lastOp = Op("init", "")
    /\ leaf = NoLeaf
    /\ watch = NoWatch
    /\ localCollapsed = <<>>

NextXmlView ==
    \/ expandAll /\ UNCHANGED aux
    \/ collapseAll /\ UNCHANGED aux
    \/ \E t \in XmlTrees : XmlTree_onClick(t) /\ UNCHANGED aux

SpecXmlView == InitXmlView /\ [][NextXmlView]_vars

(***************************************************************************)
(* XmlView as App mounts it after a load, with the view before a           *)
(* collapsing header click kept in `watch` until the same header is        *)
(* clicked again; a bulk operation ends the watch.  Documents have up to   *)
(* MaxWatchedNodes elements, enough for two inner nodes side by side, one  *)
(* of them with an inner node below it.                                    *)
(***************************************************************************)
MaxWatchedNodes == 6

WatchedElements ==
    {[children |-> c] : c \in UNION {Forests(n - 1) : n \in 1..MaxWatchedNodes}}

InitWatched ==
    /\ xmlElement \in WatchedElements
    /\ error = null
    /\ collapsedMap = generateDefaultCollapsedMap(xmlElement)
    /\ isDragging = FALSE
    /\ stale = 0
    /\ latest = NoReader
    /\ heldMap = NoMap
    /\ lastOp = Op("init", "")
    /\ leaf = NoLeaf
    /\ watch = NoWatch
    /\ localCollapsed = <<>>

\* What the click on the header of t does to the watch.
Watching(t) ==
    LET active == watch # NoWatch /\ ~watch.done
    IN \/ /\ ~t.collapsed
          /\ watch' = [path |-> t.path, map |-> collapsedMap,
                       rendered |-> RenderedPaths, others |-> FALSE, done |-> FALSE]
       \/ /\ active
          /\ t.path # watch.path
          /\ watch' = [watch EXCEPT !.others = TRUE]
       \/ /\ active
          /\ t.path = watch.path
          /\ watch' = [watch EXCEPT !.done = TRUE]
       \/ /\ ~active
          /\ t.collapsed
          /\ watch' = NoWatch

NextWatched ==
    \/ expandAll /\ watch' = NoWatch /\ UNCHANGED <<leaf, localCollapsed>>
    \/ collapseAll /\ watch' = NoWatch /\ UNCHANGED <<leaf, localCollapsed>>
    \/ \E t \in XmlTrees :
           XmlTree_onClick(t) /\ Watching(t) /\ UNCHANGED <<leaf, localCollapsed>>

SpecWatched == InitWatched /\ [][NextWatched]_vars

Loaded == lastOp.op = "onload" /\ xmlElement # null

(***************************************************************************)
(* C1.  The default collapse map built at load time maps the root path "0" *)
(* to false and the path of every non-root node with at least one child to *)
(* true.                                                                   *)
(***************************************************************************)
C1_DefaultMap ==
    Loaded =>
        /\ "0" \in DOMAIN collapsedMap
        /\ collapsedMap["0"] = FALSE
        /\ \A pos \in Positions(xmlElement) :
               (pos # <<>> /\ HasChildren(xmlElement, pos)) =>
                   /\ PathOf(pos) \in DOMAIN collapsedMap
                   /\ collapsedMap[PathOf(pos)] = TRUE

\* A document with an inner node below the root has just been loaded.
C1_Witness ==
    /\ Loaded
    /\ \E pos \in Positions(xmlElement) : pos # <<>> /\ HasChildren(xmlElement, pos)

(***************************************************************************)
(* C2.  Expand-all and collapse-all are total replacements: whatever the   *)
(* map was before, collapse-all leaves every inner node's path true and    *)
(* expand-all leaves it false, and the new map is a function of the        *)
(* document and the chosen value alone.                                    *)
(***************************************************************************)
SetAll(e, value) == [p \in AllPaths(e) |-> value]

C2_BulkIsTotal ==
    /\ lastOp.op = "collapseAll" =>
           /\ \A p \in InternalPaths(xmlElement) :
                  p \in DOMAIN collapsedMap /\ collapsedMap[p] = TRUE
           /\ collapsedMap = SetAll(xmlElement, TRUE)
    /\ lastOp.op = "expandAll" =>
           /\ \A p \in InternalPaths(xmlElement) :
                  p \in DOMAIN collapsedMap /\ collapsedMap[p] = FALSE
           /\ collapsedMap = SetAll(xmlElement, FALSE)

\* Collapse-all has run on a document with two inner nodes.
C2_Witness ==
    /\ lastOp.op = "collapseAll"
    /\ Cardinality(InternalPaths(xmlElement)) >= 2

(***************************************************************************)
(* C3 as claimed.  The maps produced by the default builder, expand-all    *)
(* and collapse-all have exactly the paths of the nodes with children as   *)
(* keys; for root(a, b(c)) they are {"0": false, "0.1": true},             *)
(* {"0": false, "0.1": false} and {"0": true, "0.1": true}.                *)
(***************************************************************************)
Produced == xmlElement # null /\ lastOp.op \in {"onload", "expandAll", "collapseAll"}

C3_LeavesNeverKeys ==
    Produced =>
        /\ DOMAIN collapsedMap = InternalPaths(xmlElement)
        /\ xmlElement = ExampleTree =>
               /\ lastOp.op = "onload" =>
                      collapsedMap = ("0" :> FALSE @@ "0.1" :> TRUE)
               /\ lastOp.op = "expandAll" =>
                      collapsedMap = ("0" :> FALSE @@ "0.1" :> FALSE)
               /\ lastOp.op = "collapseAll" =>
                      collapsedMap = ("0" :> TRUE @@ "0.1" :> TRUE)

(***************************************************************************)
(* C3 as amended.  The produced maps have the path of every node of the    *)
(* document as a key, leaves included; for root(a, b(c)) the keys are      *)
(* "0", "0.0", "0.1" and "0.1.0": the default map is false at "0" and true *)
(* at the other three, expand-all is false at all four and collapse-all    *)
(* true at all four.                                                       *)
(***************************************************************************)
C3_EveryNodeIsKey ==
    Produced =>
        /\ DOMAIN collapsedMap = AllPaths(xmlElement)
        /\ xmlElement = ExampleTree =>
               /\ lastOp.op = "onload" =>
                      collapsedMap = ("0" :> FALSE @@ "0.0" :> TRUE @@
                                      "0.1" :> TRUE @@ "0.1.0" :> TRUE)
               /\ lastOp.op = "expandAll" =>
                      collapsedMap = ("0" :> FALSE @@ "0.0" :> FALSE @@
                                      "0.1" :> FALSE @@ "0.1.0" :> FALSE)
               /\ lastOp.op = "collapseAll" =>
                      collapsedMap = ("0" :> TRUE @@ "0.0" :> TRUE @@
                                      "0.1" :> TRUE @@ "0.1.0" :> TRUE)

\* root(a, b(c)) has just been loaded.
C3_Witness == xmlElement = ExampleTree /\ lastOp.op = "onload"

\* The resolved collapsed value of the node at `path` and `depth` under `map`.
isCollapsed(map, path, depth) == IF path \in DOMAIN map THEN map[path] ELSE depth > 0

(***************************************************************************)
(* C4.  A header click on the node at path p installs a map that differs   *)
(* from the map it was given only at key p, where the new value is the     *)
(* negation of the node's resolved collapsed value; every other key keeps  *)
(* its value, no other key appears or disappears, and the map it was given *)
(* is left as it was.                                                      *)
(***************************************************************************)
C4_ToggleFrame ==
    [][lastOp'.op = "toggle" =>
         \E pos \in Positions(xmlElement) :
             LET p == PathOf(pos) IN
             /\ p = lastOp'.arg
             /\ DOMAIN collapsedMap' = DOMAIN collapsedMap \cup {p}
             /\ collapsedMap'[p] = ~isCollapsed(collapsedMap, p, Len(pos))
             /\ \A k \in DOMAIN collapsedMap \ {p} : collapsedMap'[k] = collapsedMap[k]
             /\ heldMap' = collapsedMap]_vars

\* A click on a node that had no entry, in a map that had other entries.
C4_Witness ==
    /\ lastOp.op = "toggle"
    /\ heldMap # NoMap
    /\ lastOp.arg \notin DOMAIN heldMap
    /\ DOMAIN heldMap # {}

SameHeaderAgain ==
    lastOp.op = "toggle" /\ lastOp'.op = "toggle" /\ lastOp'.arg = lastOp.arg

(***************************************************************************)
(* C5 as claimed.  Toggle is its own inverse for any map and path, also    *)
(* when the path has no entry: two clicks in a row on the same header      *)
(* restore the map that was active before the first click.                 *)
(***************************************************************************)
C5_ToggleTwiceRestores ==
    [][SameHeaderAgain => collapsedMap' = heldMap]_vars

(***************************************************************************)
(* C5 as amended.  Two clicks in a row on the header of the node at path p *)
(* restore the map m that was active before the first click when p has an  *)
(* entry in m; when p has no entry in m they leave m extended by p mapped   *)
(* to the node's depth default (depth > 0), the value m resolved it to.     *)
(***************************************************************************)
C5_ToggleTwice ==
    [][SameHeaderAgain =>
         LET p == lastOp.arg IN
         IF p \in DOMAIN heldMap
         THEN collapsedMap' = heldMap
         ELSE \E pos \in Positions(xmlElement) :
                  /\ PathOf(pos) = p
                  /\ collapsedMap' = [k \in DOMAIN heldMap \cup {p} |->
                                         IF k = p THEN Len(pos) > 0 ELSE heldMap[k]]]_vars

\* The same header has been clicked twice in a row.
C5_Witness == lastOp.op = "toggle" /\ lastOp.again

(***************************************************************************)
(* C6.  The paths handed out by the depth-first traversals (the default    *)
(* builder, expand-all, collapse-all and the renderer) are pairwise        *)
(* distinct over the nodes of the document, the root's is "0", and every   *)
(* other node's path is its parent's path followed by "." and its index    *)
(* among the parent's children.                                            *)
(***************************************************************************)
UniqueAndExtending(visits, e) ==
    LET pre == Preorder(e) IN
    /\ Len(visits) = Len(pre)
    /\ visits[1].path = "0"
    /\ \A i, j \in DOMAIN visits : i # j => visits[i].path # visits[j].path
    /\ \A i \in DOMAIN visits :
           pre[i] # <<>> =>
               \E j \in DOMAIN visits :
                   /\ pre[j] = Parent(pre[i])
                   /\ visits[i].path =
                          visits[j].path \o "." \o ToString(pre[i][Len(pre[i])])

C6_PathsUnique ==
    xmlElement # null =>
        /\ UniqueAndExtending(generateDefaultCollapsedMap_traverse(xmlElement, "0", 0),
                              xmlElement)
        /\ UniqueAndExtending(expandAll_traverse(xmlElement, "0"), xmlElement)
        /\ UniqueAndExtending(collapseAll_traverse(xmlElement, "0"), xmlElement)
        /\ UniqueAndExtending(XmlViewer(xmlElement, 0, "0", SetAll(xmlElement, FALSE)),
                              xmlElement)
        /\ \A i, j \in DOMAIN Rendered : i # j => Rendered[i].path # Rendered[j].path

\* The displayed document has siblings and a grandchild of the root.
C6_Witness == xmlElement = ExampleTree

\* A step in which some FileReader's onload runs on `text`.
Completes(text) == onloadLatest(text) \/ onloadStale(text)

(***************************************************************************)
(* C7.  A successful load installs a fresh state: whatever the state was,  *)
(* after the load-completion callback has run for a well-formed document B *)
(* the active document is B, the collapse map is the default map of B, and *)
(* no error message is set.                                                *)
(***************************************************************************)
C7_LoadInstallsFreshState ==
    [][\A text \in Texts :
           (text.wellFormed /\ Completes(text)) =>
               /\ xmlElement' = text.root
               /\ collapsedMap' = generateDefaultCollapsedMap(text.root)
               /\ error' = null]_vars

(***************************************************************************)
(* C8 as claimed.  After the load-completion callback has run for          *)
(* malformed content there is no active document, the collapse map has     *)
(* been cleared, and the error message is "Not a valid XML".               *)
(***************************************************************************)
C8_FailedParseClearsAll ==
    [][Completes(Malformed) =>
           /\ xmlElement' = null
           /\ collapsedMap' = <<>>
           /\ error' = NotValidXml]_vars

(***************************************************************************)
(* C8 as amended.  After the load-completion callback has run for          *)
(* malformed content there is no active document and nothing of a tree is  *)
(* rendered, the error message is "Not a valid XML", and the collapse map  *)
(* is the one that was active before: it is kept, not cleared.             *)
(***************************************************************************)
C8_FailedParseClearsTree ==
    [][Completes(Malformed) =>
           /\ xmlElement' = null
           /\ Rendered' = <<>>
           /\ error' = NotValidXml
           /\ collapsedMap' = collapsedMap]_vars

\* A malformed file has just been read while a document's map was active.
C8_Witness ==
    /\ lastOp = Op("onload", "malformed")
    /\ collapsedMap # <<>>
    /\ error = NotValidXml

(***************************************************************************)
(* C9.  A selected or dropped file whose type is not 'text/xml' is         *)
(* rejected silently: no read starts, and the active document, the         *)
(* collapse map and the error message stay as they were.                   *)
(***************************************************************************)
C9_RejectedFileChangesNothing ==
    [][\A type \in FileTypes \ {"text/xml"} :
           (handleDrop(type) \/ handleFileChange(type)) =>
               UNCHANGED <<xmlElement, collapsedMap, error, stale, latest>>]_vars

\* A file was just rejected while a tree is displayed and a read is in flight.
C9_Witness ==
    /\ lastOp = Op("handleFile", "rejected")
    /\ xmlElement # null
    /\ latest = Reading

(***************************************************************************)
(* C10.  Last-load-wins: when a load was started while an earlier read was *)
(* still in flight, then once every read has completed, in whatever order, *)
(* the document, collapse map and error are those the most recently        *)
(* started load produces.                                                  *)
(***************************************************************************)
C10_LastLoadWins ==
    [][(latest.state = "done" /\ latest'.state = "none") =>
           LET xmlDoc == parseFromString(latest.text) IN
           IF xmlDoc.parsererror > 0
           THEN xmlElement' = null /\ error' = NotValidXml
           ELSE /\ xmlElement' = xmlDoc.documentElement
                /\ collapsedMap' = generateDefaultCollapsedMap(xmlDoc.documentElement)
                /\ error' = null]_vars

\* The proper ancestors of the node at `pos`.
Ancestors(pos) == {SubSeq(pos, 1, k) : k \in 0..(Len(pos) - 1)}

(***************************************************************************)
(* C13.  Coverage: whenever a document is displayed, every node of it that *)
(* has a child has an entry in the active collapse map, so no rendered     *)
(* XmlTree falls back on its depth.                                        *)
(***************************************************************************)
C13_MapCoversInnerNodes ==
    xmlElement # null =>
        /\ InternalPaths(xmlElement) \subseteq DOMAIN collapsedMap
        /\ \A t \in XmlTrees : t.path \in DOMAIN collapsedMap

\* b of root(a, b(c)) has just been clicked.
C13_Witness ==
    /\ xmlElement = ExampleTree
    /\ lastOp.op = "toggle"
    /\ lastOp.arg = "0.1"

(***************************************************************************)
(* C14.  Error and tree exclude each other: in no reachable state is an    *)
(* error message set while a document is active, and while an error is     *)
(* shown nothing of a tree is rendered.                                    *)
(***************************************************************************)
C14_ErrorExcludesTree ==
    /\ ~(error # null /\ xmlElement # null)
    /\ error # null => Rendered = <<>>

\* An error is on display after a document had been displayed, and a file was
\* rejected since.
C14_Witness ==
    /\ error = NotValidXml
    /\ collapsedMap # <<>>
    /\ lastOp = Op("handleFile", "rejected")

(***************************************************************************)
(* C15.  Rendering rule: a node is rendered iff each of its proper         *)
(* ancestors resolves to expanded, and a rendered node with children is    *)
(* shown collapsed iff its resolved value (its entry, or depth > 0 without *)
(* one) is true.  With the default map of root(a, b(c)) the nodes root, a  *)
(* and b are rendered and c is not; a click on b then sets "0.1" to false  *)
(* and c is rendered besides the other three.                              *)
(***************************************************************************)
C15_RenderingRule ==
    xmlElement # null =>
        /\ \A pos \in Positions(xmlElement) :
               PathOf(pos) \in RenderedPaths <=>
                   \A q \in Ancestors(pos) :
                       ~isCollapsed(collapsedMap, PathOf(q), Len(q))
        /\ \A i \in DOMAIN Rendered :
               \E pos \in Positions(xmlElement) :
                   /\ PathOf(pos) = Rendered[i].path
                   /\ (Rendered[i].component = "XmlTree") <=> HasChildren(xmlElement, pos)
                   /\ HasChildren(xmlElement, pos) =>
                          Rendered[i].collapsed =
                              isCollapsed(collapsedMap, PathOf(pos), Len(pos))
        /\ (/\ xmlElement = ExampleTree
            /\ collapsedMap = generateDefaultCollapsedMap(ExampleTree)) =>
               RenderedPaths = {"0", "0.0", "0.1"}
        /\ (/\ xmlElement = ExampleTree
            /\ lastOp.op = "toggle" /\ lastOp.arg = "0.1"
            /\ heldMap = generateDefaultCollapsedMap(ExampleTree)) =>
               /\ collapsedMap["0.1"] = FALSE
               /\ RenderedPaths = {"0", "0.0", "0.1", "0.1.0"}

\* b has been clicked once in the default view of root(a, b(c)).
C15_Witness ==
    /\ xmlElement = ExampleTree
    /\ lastOp.op = "toggle" /\ lastOp.arg = "0.1"
    /\ heldMap = generateDefaultCollapsedMap(ExampleTree)

(***************************************************************************)
(* C16.  Addressing agreement: node by node, in depth-first order, the     *)
(* path the renderer uses equals the path under which the default builder, *)
(* expand-all and collapse-all store the node's entry; hence a header      *)
(* click changes the entry of the clicked node and no other.               *)
(***************************************************************************)
C16_AddressingAgrees ==
    xmlElement # null =>
        LET built == generateDefaultCollapsedMap_traverse(xmlElement, "0", 0)
            expanded == expandAll_traverse(xmlElement, "0")
            collapsed == collapseAll_traverse(xmlElement, "0")
            shown == XmlViewer(xmlElement, 0, "0", SetAll(xmlElement, FALSE))
            pre == Preorder(xmlElement)
        IN /\ Len(shown) = Len(pre)
           /\ Len(built) = Len(pre) /\ Len(expanded) = Len(pre) /\ Len(collapsed) = Len(pre)
           /\ \A i \in DOMAIN pre :
                  /\ shown[i].node = NodeAt(xmlElement, pre[i])
                  /\ shown[i].path = built[i].path
                  /\ shown[i].path = expanded[i].path
                  /\ shown[i].path = collapsed[i].path
           /\ \A k \in DOMAIN Rendered :
                  \E i \in DOMAIN pre :
                      /\ Rendered[k].path = built[i].path
                      /\ Rendered[k].node = NodeAt(xmlElement, pre[i])
           /\ lastOp.op = "toggle" =>
                  /\ \E i \in DOMAIN pre :
                         /\ lastOp.arg = built[i].path
                         /\ HasChildren(xmlElement, pre[i])
                  /\ DOMAIN collapsedMap = DOMAIN heldMap
                  /\ \A k \in DOMAIN collapsedMap :
                         (collapsedMap[k] # heldMap[k]) <=> (k = lastOp.arg)

\* The header of b in root(a, b(c)) was clicked while b was expanded.
C16_Witness ==
    /\ xmlElement = ExampleTree
    /\ lastOp.op = "toggle" /\ lastOp.arg = "0.1"
    /\ collapsedMap["0.1"] = TRUE

(***************************************************************************)
(* C17.  No state bleed: whenever a document is displayed, every key of    *)
(* the active collapse map is the path of a node of that document, and     *)
(* right after a load the map is that document's default map, whatever was *)
(* loaded or left over before.                                             *)
(***************************************************************************)
C17_NoStateBleed ==
    xmlElement # null =>
        /\ DOMAIN collapsedMap \subseteq AllPaths(xmlElement)
        /\ Loaded => collapsedMap = [p \in AllPaths(xmlElement) |-> p # "0"]

\* A one-element document has just been loaded, while an older read is still
\* under way: its map has the one key "0".
C17_Witness ==
    /\ Loaded
    /\ xmlElement = Leaf
    /\ stale > 0
    /\ DOMAIN collapsedMap = {"0"}

(***************************************************************************)
(* C11.  Namespace stripping: a tag name that contains ':' is displayed as *)
(* everything after its first ':', a tag name without ':' as it is; so     *)
(* "ns:Item" shows as "Item", "Item" as "Item" and "a:b:c" as "b:c".       *)
(***************************************************************************)
AfterFirstColon(chars) ==
    LET colons == {i \in DOMAIN chars : chars[i] = ":"}
        first == CHOOSE i \in colons : \A j \in colons : i <= j
    IN IF colons = {} THEN chars ELSE SubSeq(chars, first + 1, Len(chars))

C11_StripsAtFirstColon ==
    (leaf # NoLeaf /\ leaf.spans # null) =>
        /\ leaf.spans.name = Str(AfterFirstColon(leaf.node.nodeName.string))
        /\ leaf.node.nodeName = Str(<<"n", "s", ":", "I", "t", "e", "m">>) =>
               leaf.spans.name = Str(<<"I", "t", "e", "m">>)
        /\ leaf.node.nodeName = Str(<<"I", "t", "e", "m">>) =>
               leaf.spans.name = Str(<<"I", "t", "e", "m">>)
        /\ leaf.node.nodeName = Str(<<"a", ":", "b", ":", "c">>) =>
               leaf.spans.name = Str(<<"b", ":", "c">>)

(***************************************************************************)
(* C12.  Content limiting: the text shown is the content without its       *)
(* leading and trailing whitespace if that has at most 80 characters (so   *)
(* exactly 80 are shown unchanged), and its first 80 characters followed   *)
(* by "..." if it has more (so for 81); content that is null, empty or all *)
(* whitespace is shown as the empty string.                                *)
(***************************************************************************)
C12_LimitContent ==
    (leaf # NoLeaf /\ leaf.spans # null) =>
        LET content == leaf.node.textContent
            shown == leaf.spans.content
        IN IF content = null THEN shown = Str(<<>>)
           ELSE LET chars == content.string
                    solid == {i \in DOMAIN chars : chars[i] \notin Whitespace}
                    first == CHOOSE i \in solid : \A j \in solid : i <= j
                    last == CHOOSE i \in solid : \A j \in solid : j <= i
                    text == SubSeq(chars, first, last)
                IN IF solid = {} THEN shown = Str(<<>>)
                   ELSE /\ Len(text) <= max => shown = Str(text)
                        /\ Len(text) > max =>
                               shown = Str(SubSeq(text, 1, max) \o <<".", ".", ".">>)
                        /\ Len(text) = max + 1 => Len(shown.string) = max + 3

\* A padded text of 81 characters has been rendered.
C12_Witness ==
    /\ leaf # NoLeaf
    /\ leaf.spans # null
    /\ leaf.node.textContent = Str(<<" ">> \o Body(max + 1) \o <<"\n">>)

(***************************************************************************)
(* C18.  Descendant state survives an ancestor's collapse.  As stated:     *)
(* when a header click collapses a node n and a later click on n expands   *)
(* it again, with no bulk operation or load in between, every descendant   *)
(* of n has the value it had before the first click, and the set of        *)
(* rendered nodes is the one before the first click.                       *)
(***************************************************************************)
PositionOf(path) == CHOOSE pos \in Positions(xmlElement) : PathOf(pos) = path

Below(pos) == {q \in Positions(xmlElement) : pos \in Ancestors(q)}

Reexpanded == watch # NoWatch /\ watch.done

DescendantsAsBefore ==
    \A q \in Below(PositionOf(watch.path)) :
        isCollapsed(collapsedMap, PathOf(q), Len(q)) =
            isCollapsed(watch.map, PathOf(q), Len(q))

C18_CollapseExpandRestores ==
    Reexpanded =>
        /\ DescendantsAsBefore
        /\ RenderedPaths = watch.rendered

(***************************************************************************)
(* C18, amended: after the second click every descendant of n has the      *)
(* value it had before the first click and the same nodes below n are      *)
(* rendered as before it; the whole set of rendered nodes is the one       *)
(* before the first click if no other header was clicked in between.       *)
(***************************************************************************)
C18_DescendantsSurvive ==
    Reexpanded =>
        LET below == {PathOf(q) : q \in Below(PositionOf(watch.path))}
        IN /\ DescendantsAsBefore
           /\ below \cap RenderedPaths = below \cap watch.rendered
           /\ ~watch.others => RenderedPaths = watch.rendered

\* n is expanded again, with an expanded descendant that has children, after
\* a click on another header changed what is rendered elsewhere.
C18_Witness ==
    /\ Reexpanded
    /\ watch.others
    /\ RenderedPaths # watch.rendered
    /\ \E q \in Below(PositionOf(watch.path)) :
           /\ HasChildren(xmlElement, q)
           /\ ~isCollapsed(collapsedMap, PathOf(q), Len(q))

(***************************************************************************)
(* C19.  Default-collapse policy in the component-local variant            *)
(* (src/src/index.tsx): right after a successful load, before any click,   *)
(* the root is shown expanded and every node below it that has children is *)
(* shown collapsed, so the root and its children are all that is rendered. *)
(***************************************************************************)
C19_IndexDefaultPolicy ==
    Loaded =>
        /\ \A t \in index_XmlTrees : t.collapsed <=> (t.path # "0")
        /\ Len(index_Rendered) = 1 + Len(xmlElement.children)

====
